---- MODULE Spec2Model ----
(***************************************************************************)
(* The Volume component registry of NVISII (src/src/visii/volume.cpp): a   *)
(* fixed-capacity, name-addressable pool of Volume records with a dirty    *)
(* set, built on the StaticFactory helpers.                                *)
(*                                                                         *)
(* visii/utilities/static_factory.h is not among the sources; the          *)
(* StaticFactory_* operators below are written from the registry contract  *)
(* of the specification (sections 3, 4.1, 5 and 7) and from the arguments  *)
(* volume.cpp passes to them.  Everything named Volume_* is translated     *)
(* from volume.cpp.                                                        *)
(***************************************************************************)
EXTENDS Integers, FiniteSets, Sequences, TLC

(* ------------------------------ bounds -------------------------------- *)

\* names are the strings 1..NumNames
NumNames == 4

\* initializeFactory is called with max_components in 0..MaxCount
MaxCount == 3

Names == 1..NumNames

\* std::string() : the name of a default-constructed record
EmptyName == 0

\* a null pointer / "no slot"
Null == -1

\* The file a path names, as the create lambda of createFromFile sees it:
\*   "ok"          exists, ends in .nvdb, holds a readable grid
\*   "missing"     fileExists(path) is false
\*   "unsupported" exists, extension other than .nvdb
\*   "unreadable"  exists, .nvdb, readGrid returns an empty handle
\*   "nodot"       exists, no '.' in the path: strrchr returns NULL and
\*                 std::string(NULL) is undefined behaviour
PathKinds == {"ok", "missing", "unsupported", "unreadable", "nodot"}

\* what the build makes of the undefined std::string(NULL): libstdc++ throws
\* std::logic_error, other builds terminate the process
UbOutcomes(pathKind) == IF pathKind = "nodot" THEN {"throw", "abort"} ELSE {"throw"}

VARIABLES
    factoryInitialized,  \* Volume::factoryInitialized
    volumes,             \* Volume::volumes        : slot index -> record
    volumeStructs,       \* Volume::volumeStructs  : slot index -> struct
    lookupTable,         \* Volume::lookupTable    : name -> slot index
    dirtyVolumes,        \* Volume::dirtyVolumes   : set of slots (Volume*)
    editMutex,           \* Volume::editMutex      : the shared recursive mutex
    halted,              \* the process was terminated (abort)
    last,                \* the last call made: operation, argument, outcome
    pc,                  \* per thread: position in the call it is making
    loc,                 \* per thread: the locals of that call
    heldMap,             \* what a caller was returned by getNameToIdMap()
    gpu                  \* the device program of one pixel of a launch

vars == <<factoryInitialized, volumes, volumeStructs, lookupTable,
          dirtyVolumes, editMutex, halted, last, pc, loc, heldMap, gpu>>

registry == <<factoryInitialized, volumes, volumeStructs, lookupTable,
              dirtyVolumes, editMutex>>

(* ---------------- std::shared_ptr<std::recursive_mutex> --------------- *)

\* an empty shared_ptr: no mutex has been made
NullMutex == [made |-> FALSE, owner |-> Null, count |-> 0, recursive |-> TRUE]

\* std::make_shared<std::recursive_mutex>(): a mutex nobody holds
NewMutex == [made |-> TRUE, owner |-> Null, count |-> 0, recursive |-> TRUE]

\* the component kinds whose registry declares an edit mutex
ComponentKinds == {"Volume", "Light", "Texture"}

\* the type of the kind's editMutex: std::recursive_mutex for Volume and
\* Light, std::mutex for Texture
EditMutexRecursive(kind) == kind # "Texture"

\* std::make_shared of the kind's mutex type
MakeMutex(kind) == [NewMutex EXCEPT !.recursive = EditMutexRecursive(kind)]

IsNullMutex(mutex) == ~mutex.made

\* std::lock_guard by thread t returns: the mutex is free, or it is a
\* recursive mutex that t already owns
CanLock(mutex, t) == mutex.owner = Null \/ (mutex.recursive /\ mutex.owner = t)

Lock(mutex, t) == [mutex EXCEPT !.owner = t, !.count = @ + 1]

Unlock(mutex, t) ==
    IF mutex.count = 1 THEN [mutex EXCEPT !.owner = Null, !.count = 0]
    ELSE [mutex EXCEPT !.count = @ - 1]

(* --------------------------- Volume records --------------------------- *)

\* mutant of Volume_null: the default constructor marks the record initialized
Volume_null_initialized == [initialized |-> TRUE, name |-> EmptyName, id |-> Null]

\* Volume::Volume(): a null record, marking a row of the table as free.
\* Only initialized is assigned; name is the empty string.  The id of a
\* null record is never read by volume.cpp and is written Null here.
Volume_null == [initialized |-> FALSE, name |-> EmptyName, id |-> Null]

\* mutant of Volume_named: the constructor drops its id argument
Volume_named_idZero(name, id) == [initialized |-> TRUE, name |-> name, id |-> 0]

\* Volume::Volume(std::string name, uint32_t id)
Volume_named(name, id) == [initialized |-> TRUE, name |-> name, id |-> id]

\* volumes.size(), Volume::getCount
Volume_getCount(vols) == Cardinality(DOMAIN vols)

\* Volume::isInitialized, on the record in slot i
Volume_isInitialized(vols, i) == vols[i].initialized

\* Volume::getAddress: this - volumes.data(); a record object is named by
\* its offset from the front of the array, which for slot i is i
Volume_getAddress(obj) == obj

\* mutant of Volume_areAnyDirty: one dirty record does not count
Volume_areAnyDirty_moreThanOne(dirty) == Cardinality(dirty) > 1

\* Volume::areAnyDirty
Volume_areAnyDirty(dirty) == Cardinality(dirty) > 0

\* Volume::getNameToIdMap: a copy of the lookup table
Volume_getNameToIdMap(table) == table

\* mutant of Volume_getNameToIdMap_returns: a reference to the static table
Volume_getNameToIdMap_returnsReference == "reference"

\* the return type of getNameToIdMap, std::map<std::string, uint32_t>: the
\* caller is handed a map of its own
Volume_getNameToIdMap_returns == "copy"

\* the live records: the slots whose record is initialized
Live(vols) == {i \in DOMAIN vols : vols[i].initialized}

(* ---------------------- std::map<string, uint32_t> -------------------- *)

TableInsert(table, name, id) ==
    [n \in (DOMAIN table) \cup {name} |-> IF n = name THEN id ELSE table[n]]

TableErase(table, name) ==
    [n \in (DOMAIN table) \ {name} |-> table[n]]

(* ----------- StaticFactory (from the registry contract) --------------- *)

StaticFactory_doesItemExist(table, name) == name \in DOMAIN table

\* first fit: the lowest index in 0..maxItems-1 whose record is not
\* initialized, Null when there is none
StaticFactory_findAvailableID(items, maxItems) ==
    LET free == {i \in 0..(maxItems - 1) : ~items[i].initialized}
    IN  IF free = {} THEN Null
        ELSE CHOOSE i \in free : \A j \in free : i <= j

\* create<T>(mutex, name, type, lookupTable, items, maxItems, function),
\* run by one thread with the mutex free.  cbErr is what the callback does
\* when it is reached: "None" when it returns, else the error it throws.
\* A throwing callback leaves the slot allocated: rolling it back is the
\* caller's catch block.
StaticFactory_create(mutex, name, table, items, maxItems, cbErr) ==
    IF IsNullMutex(mutex) THEN
        [err |-> "NotInitialized", id |-> Null, items |-> items, table |-> table]
    ELSE IF StaticFactory_doesItemExist(table, name) THEN
        [err |-> "DuplicateName", id |-> Null, items |-> items, table |-> table]
    ELSE LET id == StaticFactory_findAvailableID(items, maxItems) IN
        IF id = Null THEN
            [err |-> "CapacityExceeded", id |-> Null, items |-> items, table |-> table]
        ELSE
            [err   |-> cbErr,
             id    |-> id,
             items |-> [items EXCEPT ![id] = Volume_named(name, id)],
             table |-> TableInsert(table, name, id)]

\* get(mutex, name, type, lookupTable, items, maxItems): the slot of the
\* live record of that name, Null (not found) when there is none
StaticFactory_get(mutex, name, table, items, maxItems) ==
    IF IsNullMutex(mutex) THEN [err |-> "NotInitialized", id |-> Null]
    ELSE IF StaticFactory_doesItemExist(table, name)
            /\ table[name] \in 0..(maxItems - 1)
            /\ items[table[name]].initialized
         THEN [err |-> "None", id |-> table[name]]
         ELSE [err |-> "None", id |-> Null]

\* removeIfExists(mutex, name, type, lookupTable, items, maxItems): resets
\* the slot of that name to a null record and erases the name; nothing
\* when the name is absent
StaticFactory_removeIfExists(mutex, name, table, items, maxItems) ==
    IF IsNullMutex(mutex) THEN
        [err |-> "NotInitialized", items |-> items, table |-> table]
    ELSE IF ~StaticFactory_doesItemExist(table, name) THEN
        [err |-> "None", items |-> items, table |-> table]
    ELSE
        [err   |-> "None",
         items |-> [items EXCEPT ![table[name]] = Volume_null],
         table |-> TableErase(table, name)]

\* remove(mutex, name, type, lookupTable, items, maxItems)
StaticFactory_remove(mutex, name, table, items, maxItems) ==
    StaticFactory_removeIfExists(mutex, name, table, items, maxItems)

(* ------------------------------ Volume -------------------------------- *)

\* mutant of Volume_initializeFactory: no isFactoryInitialized() guard
Volume_initializeFactory_noGuard(max_components, inited, vols, structs, mutex) ==
    [inited  |-> TRUE,
     vols    |-> [i \in 0..(max_components - 1) |->
                     IF i \in DOMAIN vols THEN vols[i] ELSE Volume_null],
     structs |-> [i \in 0..(max_components - 1) |->
                     IF i \in DOMAIN structs THEN structs[i] ELSE 0],
     mutex   |-> NewMutex]

\* Volume::initializeFactory: a no-op when already initialized; else both
\* arrays are resized to max_components default-constructed elements and
\* the mutex is made
Volume_initializeFactory(max_components, inited, vols, structs, mutex) ==
    IF inited THEN
        [inited |-> inited, vols |-> vols, structs |-> structs, mutex |-> mutex]
    ELSE
        [inited  |-> TRUE,
         vols    |-> [i \in 0..(max_components - 1) |-> Volume_null],
         structs |-> [i \in 0..(max_components - 1) |-> 0],
         mutex   |-> NewMutex]

\* mutant of Volume_markDirty: the record is not inserted
Volume_markDirty_noInsert(obj, vols, dirty) ==
    IF Volume_getAddress(obj) < 0 \/ Volume_getAddress(obj) >= Volume_getCount(vols)
    THEN [err |-> "NotAllocated", dirty |-> dirty]
    ELSE [err |-> "None", dirty |-> dirty]

\* mutant of Volume_markDirty: > in place of >= in the check of the address
Volume_markDirty_offByOne(obj, vols, dirty) ==
    IF Volume_getAddress(obj) < 0 \/ Volume_getAddress(obj) > Volume_getCount(vols)
    THEN [err |-> "NotAllocated", dirty |-> dirty]
    ELSE [err |-> "None", dirty |-> dirty \cup {obj}]

\* mutant of Volume_markDirty: no check of the address
Volume_markDirty_noRangeCheck(obj, vols, dirty) ==
    [err |-> "None", dirty |-> dirty \cup {obj}]

\* Volume::markDirty on the record object at address offset obj
Volume_markDirty(obj, vols, dirty) ==
    IF Volume_getAddress(obj) < 0 \/ Volume_getAddress(obj) >= Volume_getCount(vols)
    THEN [err |-> "NotAllocated", dirty |-> dirty]
    ELSE [err |-> "None", dirty |-> dirty \cup {obj}]

\* mutant of Volume_updateComponents: the dirty set is not cleared
Volume_updateComponents_noClear(dirty) == dirty

\* Volume::updateComponents
Volume_updateComponents(dirty) ==
    IF Cardinality(dirty) = 0 THEN dirty ELSE {}

\* Volume::get
Volume_get(name, mutex, table, vols) ==
    StaticFactory_get(mutex, name, table, vols, Volume_getCount(vols))

\* mutant of Volume_remove: StaticFactory::remove is not called
Volume_remove_noErase(name, mutex, table, vols, dirty) ==
    LET t == Volume_get(name, mutex, table, vols) IN
    IF t.err # "None" THEN
        [err |-> t.err, ret |-> Null, vols |-> vols, table |-> table, dirty |-> dirty]
    ELSE IF t.id = Null THEN
        [err |-> "None", ret |-> Null, vols |-> vols, table |-> table, dirty |-> dirty]
    ELSE
        [err |-> "None", ret |-> vols[t.id].id, vols |-> vols, table |-> table,
         dirty |-> dirty \cup {vols[t.id].id}]

\* mutant of Volume_remove: a name that is not found is reported as an error
Volume_remove_throwsIfAbsent(name, mutex, table, vols, dirty) ==
    LET t == Volume_get(name, mutex, table, vols) IN
    IF t.err # "None" THEN
        [err |-> t.err, ret |-> Null, vols |-> vols, table |-> table, dirty |-> dirty]
    ELSE IF t.id = Null THEN
        [err |-> "NotFound", ret |-> Null, vols |-> vols, table |-> table,
         dirty |-> dirty]
    ELSE
        LET oldID == vols[t.id].id
            r == StaticFactory_remove(mutex, name, table, vols, Volume_getCount(vols))
        IN  [err |-> r.err, ret |-> oldID, vols |-> r.items, table |-> r.table,
             dirty |-> IF r.err = "None" THEN dirty \cup {oldID} ELSE dirty]

\* mutant of Volume_remove: the removed slot is not put on the dirty set
Volume_remove_noDirty(name, mutex, table, vols, dirty) ==
    LET t == Volume_get(name, mutex, table, vols) IN
    IF t.err # "None" THEN
        [err |-> t.err, ret |-> Null, vols |-> vols, table |-> table, dirty |-> dirty]
    ELSE IF t.id = Null THEN
        [err |-> "None", ret |-> Null, vols |-> vols, table |-> table, dirty |-> dirty]
    ELSE
        LET oldID == vols[t.id].id
            r == StaticFactory_remove(mutex, name, table, vols, Volume_getCount(vols))
        IN  [err |-> r.err, ret |-> oldID, vols |-> r.items, table |-> r.table,
             dirty |-> dirty]

\* mutant of Volume_remove: the slot after the removed one is put on the
\* dirty set
Volume_remove_dirtyOffByOne(name, mutex, table, vols, dirty) ==
    LET t == Volume_get(name, mutex, table, vols) IN
    IF t.err # "None" THEN
        [err |-> t.err, ret |-> Null, vols |-> vols, table |-> table, dirty |-> dirty]
    ELSE IF t.id = Null THEN
        [err |-> "None", ret |-> Null, vols |-> vols, table |-> table, dirty |-> dirty]
    ELSE
        LET oldID == vols[t.id].id
            r == StaticFactory_remove(mutex, name, table, vols, Volume_getCount(vols))
        IN  [err |-> r.err, ret |-> oldID, vols |-> r.items, table |-> r.table,
             dirty |-> IF r.err = "None" THEN dirty \cup {oldID + 1} ELSE dirty]

\* Volume::remove.  t->getId() reads the id of the record get returned;
\* the slot pushed on the dirty set is &volumes[oldID].
Volume_remove(name, mutex, table, vols, dirty) ==
    LET t == Volume_get(name, mutex, table, vols) IN
    IF t.err # "None" THEN
        [err |-> t.err, ret |-> Null, vols |-> vols, table |-> table, dirty |-> dirty]
    ELSE IF t.id = Null THEN
        [err |-> "None", ret |-> Null, vols |-> vols, table |-> table, dirty |-> dirty]
    ELSE
        LET oldID == vols[t.id].id
            r == StaticFactory_remove(mutex, name, table, vols, Volume_getCount(vols))
        IN  [err   |-> r.err,
             ret   |-> oldID,
             vols  |-> r.items,
             table |-> r.table,
             dirty |-> IF r.err = "None" THEN dirty \cup {oldID} ELSE dirty]

\* Volume::clearAll: the loop over volumes, from slot i on
RECURSIVE Volume_clearAll_loop(_, _, _, _, _)
Volume_clearAll_loop(i, mutex, table, vols, dirty) ==
    IF i >= Volume_getCount(vols) THEN
        [vols |-> vols, table |-> table, dirty |-> dirty]
    ELSE IF vols[i].initialized THEN
        LET r == Volume_remove(vols[i].name, mutex, table, vols, dirty)
        IN  Volume_clearAll_loop(i + 1, mutex, r.table, r.vols, r.dirty)
    ELSE Volume_clearAll_loop(i + 1, mutex, table, vols, dirty)

\* mutant of Volume_clearAll: the loop starts at the second slot
Volume_clearAll_skipFirst(inited, mutex, table, vols, dirty) ==
    IF ~inited THEN [vols |-> vols, table |-> table, dirty |-> dirty]
    ELSE Volume_clearAll_loop(1, mutex, table, vols, dirty)

\* Volume::clearAll
Volume_clearAll(inited, mutex, table, vols, dirty) ==
    IF ~inited THEN [vols |-> vols, table |-> table, dirty |-> dirty]
    ELSE Volume_clearAll_loop(0, mutex, table, vols, dirty)

\* The create lambda of createFromFile up to its last statement: the error
\* it throws, or "None" when it reaches v->markDirty().  ub is the outcome
\* of std::string(NULL) for a path without a '.': a std::logic_error, or
\* the process is terminated.
Volume_createLambda(pathKind, ub) ==
    CASE pathKind = "missing"     -> "FileNotFound"
      [] pathKind = "nodot"       -> IF ub = "throw" THEN "LogicError" ELSE "Abort"
      [] pathKind = "unsupported" -> "UnsupportedFormat"
      [] pathKind = "unreadable"  -> "UnreadableGrid"
      [] OTHER                    -> "None"

\* mutant of Volume_createFromFile_mutex: each call locks a mutex of its own
Volume_createFromFile_mutex_fresh == "fresh"

\* the mutex argument createFromFile hands to StaticFactory::create and
\* removeIfExists: the registry's shared editMutex
Volume_createFromFile_mutex == "editMutex"

\* the mutex object an argument names: the shared one, or one made afresh
MutexArg(which, shared) == IF which = "editMutex" THEN shared ELSE NewMutex

\* mutant of Volume_createFromFile_maxItems: one slot short
Volume_createFromFile_maxItems_offByOne(vols) == Volume_getCount(vols) - 1

\* the maxItems argument createFromFile hands to StaticFactory::create
Volume_createFromFile_maxItems(vols) == Volume_getCount(vols)

\* mutant of Volume_createFromFile_catch: the block only rethrows
Volume_createFromFile_catch_rethrowOnly(mutex, name, table, vols) ==
    [err |-> "None", items |-> vols, table |-> table]

\* the catch (...) block of createFromFile: removeIfExists(name), rethrow
Volume_createFromFile_catch(mutex, name, table, vols) ==
    StaticFactory_removeIfExists(mutex, name, table, vols, Volume_getCount(vols))

\* Volume::createFromFile
Volume_createFromFile(name, pathKind, ub, mutex, table, vols, dirty) ==
    LET cb == Volume_createLambda(pathKind, ub)
        m  == MutexArg(Volume_createFromFile_mutex, mutex)
        c  == StaticFactory_create(m, name, table, vols,
                                   Volume_createFromFile_maxItems(vols), cb)
        md == Volume_markDirty(c.id, c.items, dirty)
        thrown == IF c.err # "None" THEN c.err ELSE md.err
    IN  IF thrown = "None" THEN
            [err |-> "None", ret |-> c.id, vols |-> c.items, table |-> c.table,
             dirty |-> md.dirty, halted |-> FALSE]
        ELSE IF thrown = "Abort" THEN
            [err |-> "Abort", ret |-> Null, vols |-> c.items, table |-> c.table,
             dirty |-> dirty, halted |-> TRUE]
        ELSE
            LET r == Volume_createFromFile_catch(m, name, c.table, c.items)
            IN  [err   |-> IF r.err # "None" THEN r.err ELSE thrown,
                 ret   |-> Null,
                 vols  |-> r.items,
                 table |-> r.table,
                 dirty |-> dirty,
                 halted |-> FALSE]

\* The render struct a synchronization pass computes from a record.  The
\* layout of VolumeStruct is not in volume.cpp; a struct is written here as
\* the name of the record whose fields it was computed from, and the
\* value-initialized struct of volumeStructs.resize() as 0, the struct of no
\* record.
VolumeStruct_of(rec) == rec.name

(* ------------------- one caller: whole calls as steps ----------------- *)

\* the threads of the interleaved specification
NumThreads == 2

Threads == 1..NumThreads

\* address offsets of the record objects a caller can hold: the slots of
\* the array and objects that lie outside it (a copy, a stale address)
Objects == -1..MaxCount

NoCall == [op |-> "none", arg |-> EmptyName, err |-> "None", ret |-> Null]

Idle == [t \in Threads |-> "idle"]

\* seen: what a call found: for markDirty the threads that were inside
\* updateComponents when it inserted its record, for updateComponents the
\* dirty set at its size() test
NoLocals == [t \in Threads |-> [name |-> EmptyName, id |-> Null, err |-> "None",
                                seen |-> {}]]

\* the device before a launch
NoLaunch == [pc |-> "idle",
             cameraEntity |-> [initialized |-> FALSE, transform_id |-> Null,
                               camera_id |-> Null],
             loaded |-> FALSE, traced |-> FALSE, reads |-> {},
             entityID |-> Null, material_id |-> Null, colour |-> "none"]

\* no map was returned yet
NoMap == [taken |-> FALSE, how |-> "copy", atCall |-> [n \in {} |-> Null]]

\* the state after static construction (volume.cpp lines 10-15)
Init ==
    /\ factoryInitialized = FALSE
    /\ volumes = [i \in {} |-> Volume_null]
    /\ volumeStructs = [i \in {} |-> 0]
    /\ lookupTable = [n \in {} |-> Null]
    /\ dirtyVolumes = {}
    /\ editMutex = NullMutex
    /\ halted = FALSE
    /\ last = NoCall
    /\ pc = Idle
    /\ loc = NoLocals
    /\ heldMap = NoMap
    /\ gpu = NoLaunch

\* (each action binds the result of its call once, as r)
InitializeFactory ==
    \E m \in 0..MaxCount :
        \E r \in {Volume_initializeFactory(m, factoryInitialized, volumes,
                                          volumeStructs, editMutex)} :
            /\ ~halted
            /\ factoryInitialized' = r.inited
            /\ volumes' = r.vols
            /\ volumeStructs' = r.structs
            /\ editMutex' = r.mutex
            /\ last' = [op |-> "initializeFactory", arg |-> m, err |-> "None",
                        ret |-> Null]
            /\ UNCHANGED <<lookupTable, dirtyVolumes, halted, pc, loc, heldMap, gpu>>

CreateFromFile ==
    \E name \in Names, pathKind \in PathKinds :
      \E ub \in UbOutcomes(pathKind) :
        \E r \in {Volume_createFromFile(name, pathKind, ub, editMutex,
                                       lookupTable, volumes, dirtyVolumes)} :
            /\ ~halted
            /\ volumes' = r.vols
            /\ lookupTable' = r.table
            /\ dirtyVolumes' = r.dirty
            /\ halted' = r.halted
            /\ last' = [op |-> "create", arg |-> name, err |-> r.err, ret |-> r.ret]
            /\ UNCHANGED <<factoryInitialized, volumeStructs, editMutex, pc, loc, heldMap, gpu>>

Get ==
    \E name \in Names :
        \E r \in {Volume_get(name, editMutex, lookupTable, volumes)} :
            /\ ~halted
            /\ last' = [op |-> "get", arg |-> name, err |-> r.err, ret |-> r.id]
            /\ UNCHANGED <<registry, halted, pc, loc, heldMap, gpu>>

Remove ==
    \E name \in Names :
        \E r \in {Volume_remove(name, editMutex, lookupTable, volumes, dirtyVolumes)} :
            /\ ~halted
            /\ volumes' = r.vols
            /\ lookupTable' = r.table
            /\ dirtyVolumes' = r.dirty
            /\ last' = [op |-> "remove", arg |-> name, err |-> r.err, ret |-> r.ret]
            /\ UNCHANGED <<factoryInitialized, volumeStructs, editMutex, halted,
                           pc, loc, heldMap, gpu>>

ClearAll ==
    \E r \in {Volume_clearAll(factoryInitialized, editMutex, lookupTable, volumes,
                             dirtyVolumes)} :
        /\ ~halted
        /\ volumes' = r.vols
        /\ lookupTable' = r.table
        /\ dirtyVolumes' = r.dirty
        /\ last' = [op |-> "clearAll", arg |-> EmptyName, err |-> "None",
                    ret |-> Null]
        /\ UNCHANGED <<factoryInitialized, volumeStructs, editMutex, halted,
                       pc, loc, heldMap, gpu>>

UpdateComponents ==
    /\ ~halted
    /\ dirtyVolumes' = Volume_updateComponents(dirtyVolumes)
    /\ last' = [op |-> "updateComponents", arg |-> EmptyName, err |-> "None",
                ret |-> Null]
    /\ UNCHANGED <<factoryInitialized, volumes, volumeStructs, lookupTable,
                   editMutex, halted, pc, loc, heldMap, gpu>>

MarkDirty ==
    \E obj \in Objects :
        \E r \in {Volume_markDirty(obj, volumes, dirtyVolumes)} :
            /\ ~halted
            /\ dirtyVolumes' = r.dirty
            /\ last' = [op |-> "markDirty", arg |-> obj, err |-> r.err, ret |-> Null]
            /\ UNCHANGED <<factoryInitialized, volumes, volumeStructs, lookupTable,
                           editMutex, halted, pc, loc, heldMap, gpu>>

Next ==
    \/ InitializeFactory
    \/ CreateFromFile
    \/ Get
    \/ Remove
    \/ ClearAll
    \/ UpdateComponents
    \/ MarkDirty

Spec == Init /\ [][Next]_vars

(* -------------- threads: createFromFile step by step ------------------ *)
(* Each thread makes one createFromFile call.  StaticFactory::create takes *)
(* the mutex it is handed for the whole call (a lock_guard), and so does  *)
(* removeIfExists in the catch block; between the two the mutex is free.  *)
(* pc: idle -> c_lock -> c_find -> c_write -> c_callback -> c_unlock ->   *)
(* done, with a throw leading to x_lock -> x_remove -> done.              *)

\* the threads use distinct names: thread t creates the name t
ThreadName(t) == t

\* the mutex is taken by t when it is the shared one; a mutex made for the
\* call is always free
TakeMutex(t) ==
    IF Volume_createFromFile_mutex = "editMutex"
    THEN /\ CanLock(editMutex, t)
         /\ editMutex' = Lock(editMutex, t)
    ELSE UNCHANGED editMutex

DropMutex(t) ==
    IF Volume_createFromFile_mutex = "editMutex"
    THEN editMutex' = Unlock(editMutex, t)
    ELSE UNCHANGED editMutex

\* main thread, before the worker threads start
T_InitializeFactory ==
    /\ pc = Idle
    /\ InitializeFactory

\* thread t calls createFromFile(name, path) with its own name; what the
\* path names is looked at when the create lambda runs
T_Call(t) ==
    /\ ~halted
    /\ pc[t] = "idle"
    /\ ThreadName(t) \in Names
    /\ loc' = [loc EXCEPT ![t] = [name |-> ThreadName(t), id |-> Null,
                                  err |-> "None", seen |-> {}]]
    /\ pc' = [pc EXCEPT ![t] = "c_lock"]
    /\ UNCHANGED <<registry, halted, last, heldMap, gpu>>

\* StaticFactory::create: lock_guard on the mutex; an empty shared_ptr is
\* the NotInitialized error
T_CreateLock(t) ==
    /\ ~halted
    /\ pc[t] = "c_lock"
    /\ IF IsNullMutex(MutexArg(Volume_createFromFile_mutex, editMutex))
       THEN /\ loc' = [loc EXCEPT ![t].err = "NotInitialized"]
            /\ pc' = [pc EXCEPT ![t] = "x_lock"]
            /\ UNCHANGED editMutex
       ELSE /\ TakeMutex(t)
            /\ pc' = [pc EXCEPT ![t] = "c_find"]
            /\ UNCHANGED loc
    /\ UNCHANGED <<factoryInitialized, volumes, volumeStructs, lookupTable,
                   dirtyVolumes, halted, last, heldMap, gpu>>

\* StaticFactory::create: the name check and findAvailableID
T_CreateFind(t) ==
    /\ ~halted
    /\ pc[t] = "c_find"
    /\ LET id == StaticFactory_findAvailableID(volumes,
                                               Volume_createFromFile_maxItems(volumes))
           err == IF StaticFactory_doesItemExist(lookupTable, loc[t].name)
                  THEN "DuplicateName"
                  ELSE IF id = Null THEN "CapacityExceeded" ELSE "None"
       IN  IF err = "None"
           THEN /\ loc' = [loc EXCEPT ![t].id = id]
                /\ pc' = [pc EXCEPT ![t] = "c_write"]
                /\ UNCHANGED editMutex
           ELSE /\ loc' = [loc EXCEPT ![t].err = err]
                /\ pc' = [pc EXCEPT ![t] = "x_lock"]
                /\ DropMutex(t)
    /\ UNCHANGED <<factoryInitialized, volumes, volumeStructs, lookupTable,
                   dirtyVolumes, halted, last, heldMap, gpu>>

\* StaticFactory::create: items[id] = T(name, id); lookupTable[name] = id
T_CreateWrite(t) ==
    /\ ~halted
    /\ pc[t] = "c_write"
    /\ volumes' = [volumes EXCEPT ![loc[t].id] = Volume_named(loc[t].name, loc[t].id)]
    /\ lookupTable' = TableInsert(lookupTable, loc[t].name, loc[t].id)
    /\ pc' = [pc EXCEPT ![t] = "c_callback"]
    /\ UNCHANGED <<factoryInitialized, volumeStructs, dirtyVolumes, editMutex,
                   halted, last, loc, heldMap, gpu>>

\* StaticFactory::create: function(&items[id]), the create lambda
T_CreateCallback(t) ==
    /\ ~halted
    /\ pc[t] = "c_callback"
    /\ \E pathKind \in PathKinds : \E ub \in UbOutcomes(pathKind) :
         LET cb == Volume_createLambda(pathKind, ub)
             md == Volume_markDirty(loc[t].id, volumes, dirtyVolumes)
             thrown == IF cb # "None" THEN cb ELSE md.err
         IN  IF thrown = "None"
             THEN /\ dirtyVolumes' = md.dirty
                  /\ pc' = [pc EXCEPT ![t] = "c_unlock"]
                  /\ UNCHANGED <<loc, editMutex, halted>>
             ELSE IF thrown = "Abort"
             THEN /\ halted' = TRUE
                  /\ loc' = [loc EXCEPT ![t].err = "Abort"]
                  /\ UNCHANGED <<dirtyVolumes, pc, editMutex>>
             ELSE /\ loc' = [loc EXCEPT ![t].err = thrown]
                  /\ pc' = [pc EXCEPT ![t] = "x_lock"]
                  /\ DropMutex(t)
                  /\ UNCHANGED <<dirtyVolumes, halted>>
    /\ UNCHANGED <<factoryInitialized, volumes, volumeStructs, lookupTable, last, heldMap, gpu>>

\* StaticFactory::create returns &items[id]; the lock_guard is released
T_CreateReturn(t) ==
    /\ ~halted
    /\ pc[t] = "c_unlock"
    /\ DropMutex(t)
    /\ pc' = [pc EXCEPT ![t] = "done"]
    /\ UNCHANGED <<factoryInitialized, volumes, volumeStructs, lookupTable,
                   dirtyVolumes, halted, last, loc, heldMap, gpu>>

\* catch (...): removeIfExists takes the mutex; an empty shared_ptr is the
\* NotInitialized error, thrown out of the handler
T_CatchLock(t) ==
    /\ ~halted
    /\ pc[t] = "x_lock"
    /\ IF IsNullMutex(MutexArg(Volume_createFromFile_mutex, editMutex))
       THEN /\ loc' = [loc EXCEPT ![t].err = "NotInitialized", ![t].id = Null]
            /\ pc' = [pc EXCEPT ![t] = "done"]
            /\ UNCHANGED editMutex
       ELSE /\ TakeMutex(t)
            /\ pc' = [pc EXCEPT ![t] = "x_remove"]
            /\ UNCHANGED loc
    /\ UNCHANGED <<factoryInitialized, volumes, volumeStructs, lookupTable,
                   dirtyVolumes, halted, last, heldMap, gpu>>

\* catch (...): removeIfExists, release, rethrow
T_CatchRemove(t) ==
    /\ ~halted
    /\ pc[t] = "x_remove"
    /\ LET r == Volume_createFromFile_catch(NewMutex, loc[t].name, lookupTable, volumes)
       IN  /\ volumes' = r.items
           /\ lookupTable' = r.table
    /\ DropMutex(t)
    /\ loc' = [loc EXCEPT ![t].id = Null]
    /\ pc' = [pc EXCEPT ![t] = "done"]
    /\ UNCHANGED <<factoryInitialized, volumeStructs, dirtyVolumes, halted, last, heldMap, gpu>>

ThreadNext ==
    \/ T_InitializeFactory
    \/ \E t \in Threads : T_Call(t)
    \/ \E t \in Threads : T_CreateLock(t)
    \/ \E t \in Threads : T_CreateFind(t)
    \/ \E t \in Threads : T_CreateWrite(t)
    \/ \E t \in Threads : T_CreateCallback(t)
    \/ \E t \in Threads : T_CreateReturn(t)
    \/ \E t \in Threads : T_CatchLock(t)
    \/ \E t \in Threads : T_CatchRemove(t)

ThreadSpec == Init /\ [][ThreadNext]_vars

(* ------------- a caller that keeps the map it was returned ------------ *)

\* the names the caller of getNameToIdMap works with
NumMapNames == 2

MapNames == 1..NumMapNames

\* the files that caller names: one that loads and one that does not
MapPathKinds == {"ok", "missing"}

\* the map the caller reads through what getNameToIdMap returned: its own
\* copy, or the table itself had a reference been returned
ReadHeldMap ==
    IF heldMap.how = "copy" THEN heldMap.atCall
    ELSE Volume_getNameToIdMap(lookupTable)

M_InitializeFactory == InitializeFactory

M_GetNameToIdMap ==
    /\ ~halted
    /\ ~heldMap.taken
    /\ heldMap' = [taken  |-> TRUE,
                   how    |-> Volume_getNameToIdMap_returns,
                   atCall |-> Volume_getNameToIdMap(lookupTable)]
    /\ last' = [NoCall EXCEPT !.op = "getNameToIdMap"]
    /\ UNCHANGED <<registry, halted, pc, loc, gpu>>

M_CreateFromFile ==
    \E name \in MapNames, pathKind \in MapPathKinds :
        \E r \in {Volume_createFromFile(name, pathKind, "throw", editMutex,
                                       lookupTable, volumes, dirtyVolumes)} :
            /\ ~halted
            /\ volumes' = r.vols
            /\ lookupTable' = r.table
            /\ dirtyVolumes' = r.dirty
            /\ halted' = r.halted
            /\ last' = [NoCall EXCEPT !.op = "create"]
            /\ UNCHANGED <<factoryInitialized, volumeStructs, editMutex, pc, loc,
                           heldMap, gpu>>

M_Remove ==
    \E name \in MapNames :
        \E r \in {Volume_remove(name, editMutex, lookupTable, volumes, dirtyVolumes)} :
            /\ ~halted
            /\ volumes' = r.vols
            /\ lookupTable' = r.table
            /\ dirtyVolumes' = r.dirty
            /\ last' = [NoCall EXCEPT !.op = "remove"]
            /\ UNCHANGED <<factoryInitialized, volumeStructs, editMutex, halted,
                           pc, loc, heldMap, gpu>>

M_ClearAll ==
    \E r \in {Volume_clearAll(factoryInitialized, editMutex, lookupTable, volumes,
                             dirtyVolumes)} :
        /\ ~halted
        /\ volumes' = r.vols
        /\ lookupTable' = r.table
        /\ dirtyVolumes' = r.dirty
        /\ last' = [NoCall EXCEPT !.op = "clearAll"]
        /\ UNCHANGED <<factoryInitialized, volumeStructs, editMutex, halted,
                       pc, loc, heldMap, gpu>>

MapNext ==
    \/ M_InitializeFactory
    \/ M_GetNameToIdMap
    \/ M_CreateFromFile
    \/ M_Remove
    \/ M_ClearAll

MapSpec == Init /\ [][MapNext]_vars

(* ------- threads that create, remove, mark and run the sync pass ------ *)

\* The main thread sets the registry up with whole calls; then every thread
\* makes one call, step by step: createFromFile (the steps above),
\* markDirty, updateComponents or remove.  A step is one access to the
\* shared state; two unlocked accesses of std::set that overlap are a data
\* race, of which the interleavings of whole accesses here are the mildest
\* outcomes.

\* the names the main thread creates before the threads start
SetupNames == Names \ {ThreadName(t) : t \in Threads}

R_InitializeFactory == T_InitializeFactory

R_SetupCreate ==
    /\ pc = Idle
    /\ \E name \in SetupNames :
        \E r \in {Volume_createFromFile(name, "ok", "throw", editMutex,
                                       lookupTable, volumes, dirtyVolumes)} :
            /\ ~halted
            /\ volumes' = r.vols
            /\ lookupTable' = r.table
            /\ dirtyVolumes' = r.dirty
            /\ halted' = r.halted
            /\ last' = [NoCall EXCEPT !.op = "create"]
            /\ UNCHANGED <<factoryInitialized, volumeStructs, editMutex, pc, loc,
                           heldMap, gpu>>

R_SetupUpdate ==
    /\ pc = Idle
    /\ UpdateComponents

\* thread t calls markDirty() on the record object obj
R_CallMarkDirty(t) ==
    /\ ~halted
    /\ pc[t] = "idle"
    /\ \E obj \in Objects :
          loc' = [loc EXCEPT ![t] = [name |-> EmptyName, id |-> obj,
                                     err |-> "None", seen |-> {}]]
    /\ pc' = [pc EXCEPT ![t] = "m_check"]
    /\ UNCHANGED <<registry, halted, last, heldMap, gpu>>

\* markDirty: the test of getAddress(); no lock is taken
R_MarkCheck(t) ==
    /\ ~halted
    /\ pc[t] = "m_check"
    /\ IF Volume_markDirty(loc[t].id, volumes, dirtyVolumes).err # "None"
       THEN /\ loc' = [loc EXCEPT ![t].err = "NotAllocated"]
            /\ pc' = [pc EXCEPT ![t] = "m_done"]
       ELSE /\ pc' = [pc EXCEPT ![t] = "m_insert"]
            /\ UNCHANGED loc
    /\ UNCHANGED <<registry, halted, last, heldMap, gpu>>

\* markDirty: dirtyVolumes.insert(this)
R_MarkInsert(t) ==
    /\ ~halted
    /\ pc[t] = "m_insert"
    /\ dirtyVolumes' = Volume_markDirty(loc[t].id, volumes, dirtyVolumes).dirty
    /\ loc' = [loc EXCEPT ![t].seen = {u \in Threads : pc[u] = "u_clear"}]
    /\ pc' = [pc EXCEPT ![t] = "m_done"]
    /\ UNCHANGED <<factoryInitialized, volumes, volumeStructs, lookupTable,
                   editMutex, halted, last, heldMap, gpu>>

\* thread t calls updateComponents()
R_CallUpdate(t) ==
    /\ ~halted
    /\ pc[t] = "idle"
    /\ loc' = [loc EXCEPT ![t] = [name |-> EmptyName, id |-> Null,
                                  err |-> "None", seen |-> {}]]
    /\ pc' = [pc EXCEPT ![t] = "u_check"]
    /\ UNCHANGED <<registry, halted, last, heldMap, gpu>>

\* updateComponents: if (dirtyVolumes.size() == 0) return; no lock is taken
R_UpdateCheck(t) ==
    /\ ~halted
    /\ pc[t] = "u_check"
    /\ pc' = [pc EXCEPT ![t] = IF Cardinality(dirtyVolumes) = 0 THEN "u_done"
                               ELSE "u_clear"]
    /\ loc' = [loc EXCEPT ![t].seen = dirtyVolumes]
    /\ UNCHANGED <<registry, halted, last, heldMap, gpu>>

\* updateComponents: dirtyVolumes.clear()
R_UpdateClear(t) ==
    /\ ~halted
    /\ pc[t] = "u_clear"
    /\ dirtyVolumes' = {}
    /\ pc' = [pc EXCEPT ![t] = "u_done"]
    /\ UNCHANGED <<factoryInitialized, volumes, volumeStructs, lookupTable,
                   editMutex, halted, last, loc, heldMap, gpu>>

\* thread t calls remove(name)
R_CallRemove(t) ==
    /\ ~halted
    /\ pc[t] = "idle"
    /\ \E name \in Names :
          loc' = [loc EXCEPT ![t] = [name |-> name, id |-> Null,
                                     err |-> "None", seen |-> {}]]
    /\ pc' = [pc EXCEPT ![t] = "r_get"]
    /\ UNCHANGED <<registry, halted, last, heldMap, gpu>>

\* remove: auto t = get(name); StaticFactory::get locks, looks up, unlocks
R_RemoveGet(t) ==
    /\ ~halted
    /\ pc[t] = "r_get"
    /\ IsNullMutex(editMutex) \/ CanLock(editMutex, t)
    /\ \E g \in {Volume_get(loc[t].name, editMutex, lookupTable, volumes)} :
          IF g.err # "None"
          THEN /\ loc' = [loc EXCEPT ![t].err = g.err]
               /\ pc' = [pc EXCEPT ![t] = "r_done"]
          ELSE IF g.id = Null
          THEN /\ pc' = [pc EXCEPT ![t] = "r_done"]
               /\ UNCHANGED loc
          ELSE /\ loc' = [loc EXCEPT ![t].id = g.id]
               /\ pc' = [pc EXCEPT ![t] = "r_id"]
    /\ UNCHANGED <<registry, halted, last, heldMap, gpu>>

\* remove: int32_t oldID = t->getId(); the record is read without a lock
R_RemoveId(t) ==
    /\ ~halted
    /\ pc[t] = "r_id"
    /\ loc' = [loc EXCEPT ![t].id = volumes[loc[t].id].id]
    /\ pc' = [pc EXCEPT ![t] = "r_remove"]
    /\ UNCHANGED <<registry, halted, last, heldMap, gpu>>

\* remove: StaticFactory::remove locks, resets the slot, erases, unlocks
R_RemoveRemove(t) ==
    /\ ~halted
    /\ pc[t] = "r_remove"
    /\ CanLock(editMutex, t)
    /\ \E r \in {StaticFactory_remove(editMutex, loc[t].name, lookupTable, volumes,
                                     Volume_getCount(volumes))} :
          /\ volumes' = r.items
          /\ lookupTable' = r.table
    /\ pc' = [pc EXCEPT ![t] = "r_insert"]
    /\ UNCHANGED <<factoryInitialized, volumeStructs, dirtyVolumes, editMutex,
                   halted, last, loc, heldMap, gpu>>

\* remove: dirtyVolumes.insert(&volumes[oldID]); no lock is held
R_RemoveInsert(t) ==
    /\ ~halted
    /\ pc[t] = "r_insert"
    /\ dirtyVolumes' = dirtyVolumes \cup {loc[t].id}
    /\ pc' = [pc EXCEPT ![t] = "r_done"]
    /\ UNCHANGED <<factoryInitialized, volumes, volumeStructs, lookupTable,
                   editMutex, halted, last, loc, heldMap, gpu>>

RaceNext ==
    \/ R_InitializeFactory
    \/ R_SetupCreate
    \/ R_SetupUpdate
    \/ \E t \in Threads : T_Call(t)
    \/ \E t \in Threads : T_CreateLock(t)
    \/ \E t \in Threads : T_CreateFind(t)
    \/ \E t \in Threads : T_CreateWrite(t)
    \/ \E t \in Threads : T_CreateCallback(t)
    \/ \E t \in Threads : T_CreateReturn(t)
    \/ \E t \in Threads : T_CatchLock(t)
    \/ \E t \in Threads : T_CatchRemove(t)
    \/ \E t \in Threads : R_CallMarkDirty(t)
    \/ \E t \in Threads : R_MarkCheck(t)
    \/ \E t \in Threads : R_MarkInsert(t)
    \/ \E t \in Threads : R_CallUpdate(t)
    \/ \E t \in Threads : R_UpdateCheck(t)
    \/ \E t \in Threads : R_UpdateClear(t)
    \/ \E t \in Threads : R_CallRemove(t)
    \/ \E t \in Threads : R_RemoveGet(t)
    \/ \E t \in Threads : R_RemoveId(t)
    \/ \E t \in Threads : R_RemoveRemove(t)
    \/ \E t \in Threads : R_RemoveInsert(t)

RaceSpec == Init /\ [][RaceNext]_vars

(* ------------- threads that call while holding the edit mutex -------- *)

\* The registry of one component kind, with the edit mutex of that kind.
\* Only Volume's operations are among the sources; the registries of the
\* other kinds are taken to work as Volume's does, each with the mutex type
\* its header declares.  A thread may lock the mutex it got from
\* getEditMutex() and then call create, get, remove or clearAll.

L_InitializeFactory ==
    /\ pc = Idle
    /\ editMutex.owner = Null
    /\ \E kind \in ComponentKinds, m \in 0..MaxCount :
        \E r \in {Volume_initializeFactory(m, factoryInitialized, volumes,
                                          volumeStructs, editMutex)} :
            /\ ~halted
            /\ factoryInitialized' = r.inited
            /\ volumes' = r.vols
            /\ volumeStructs' = r.structs
            /\ editMutex' = IF factoryInitialized THEN r.mutex ELSE MakeMutex(kind)
            /\ last' = [op |-> "initializeFactory", arg |-> m, err |-> "None",
                        ret |-> Null]
            /\ UNCHANGED <<lookupTable, dirtyVolumes, halted, pc, loc, heldMap, gpu>>

L_SetupCreate ==
    /\ editMutex.owner = Null
    /\ R_SetupCreate

\* getEditMutex()->lock() by a thread that is not inside a call
L_Hold(t) ==
    /\ ~halted
    /\ pc[t] = "idle"
    /\ ~IsNullMutex(editMutex)
    /\ editMutex.owner = Null
    /\ editMutex' = Lock(editMutex, t)
    /\ UNCHANGED <<factoryInitialized, volumes, volumeStructs, lookupTable,
                   dirtyVolumes, halted, last, pc, loc, heldMap, gpu>>

\* thread t calls get(name)
L_CallGet(t) ==
    /\ ~halted
    /\ pc[t] = "idle"
    /\ \E name \in Names :
          loc' = [loc EXCEPT ![t] = [name |-> name, id |-> Null,
                                     err |-> "None", seen |-> {}]]
    /\ pc' = [pc EXCEPT ![t] = "g_get"]
    /\ UNCHANGED <<registry, halted, last, heldMap, gpu>>

\* get: StaticFactory::get locks, looks up, unlocks
L_Get(t) ==
    /\ ~halted
    /\ pc[t] = "g_get"
    /\ IsNullMutex(editMutex) \/ CanLock(editMutex, t)
    /\ \E g \in {Volume_get(loc[t].name, editMutex, lookupTable, volumes)} :
          loc' = [loc EXCEPT ![t].err = g.err, ![t].id = g.id]
    /\ pc' = [pc EXCEPT ![t] = "g_done"]
    /\ UNCHANGED <<registry, halted, last, heldMap, gpu>>

\* thread t calls clearAll(); id is the position of the loop in the array
L_CallClearAll(t) ==
    /\ ~halted
    /\ pc[t] = "idle"
    /\ loc' = [loc EXCEPT ![t] = [name |-> EmptyName, id |-> 0,
                                  err |-> "None", seen |-> {}]]
    /\ pc' = [pc EXCEPT ![t] = IF factoryInitialized THEN "k_loop" ELSE "k_done"]
    /\ UNCHANGED <<registry, halted, last, heldMap, gpu>>

\* the loop of clearAll is at an initialized record: remove(volume.name)
\* is next, which locks the mutex
AtRemoveOfClearAll(t) ==
    /\ pc[t] = "k_loop"
    /\ loc[t].id < Volume_getCount(volumes)
    /\ volumes[loc[t].id].initialized

\* clearAll: one turn of the loop, with the remove of an initialized record
L_ClearAllStep(t) ==
    /\ ~halted
    /\ pc[t] = "k_loop"
    /\ IF loc[t].id >= Volume_getCount(volumes)
       THEN /\ pc' = [pc EXCEPT ![t] = "k_done"]
            /\ UNCHANGED <<volumes, lookupTable, dirtyVolumes, loc>>
       ELSE IF ~volumes[loc[t].id].initialized
       THEN /\ loc' = [loc EXCEPT ![t].id = @ + 1]
            /\ UNCHANGED <<volumes, lookupTable, dirtyVolumes, pc>>
       ELSE /\ CanLock(editMutex, t)
            /\ \E r \in {Volume_remove(volumes[loc[t].id].name, editMutex,
                                      lookupTable, volumes, dirtyVolumes)} :
                  /\ volumes' = r.vols
                  /\ lookupTable' = r.table
                  /\ dirtyVolumes' = r.dirty
            /\ loc' = [loc EXCEPT ![t].id = @ + 1]
            /\ UNCHANGED pc
    /\ UNCHANGED <<factoryInitialized, volumeStructs, editMutex, halted, last,
                   heldMap, gpu>>

\* thread t is at a lock_guard of the edit mutex
WaitsForMutex(t) ==
    /\ ~IsNullMutex(editMutex)
    /\ \/ pc[t] \in {"c_lock", "x_lock", "r_get", "r_remove", "g_get"}
       \/ AtRemoveOfClearAll(t)

\* Locking a std::mutex the thread already owns is undefined behaviour: the
\* thread waits for itself for ever (no step), or, in a build that checks,
\* lock() throws std::system_error and the call is left.
L_RelockThrows(t) ==
    /\ ~halted
    /\ WaitsForMutex(t)
    /\ editMutex.owner = t
    /\ ~editMutex.recursive
    /\ loc' = [loc EXCEPT ![t].err = "WouldDeadlock"]
    /\ pc' = [pc EXCEPT ![t] = "done"]
    /\ UNCHANGED <<registry, halted, last, heldMap, gpu>>

\* unlock() by a thread whose call has returned
L_Release(t) ==
    /\ ~halted
    /\ pc[t] \in {"done", "g_done", "r_done", "k_done"}
    /\ editMutex.owner = t
    /\ editMutex' = Unlock(editMutex, t)
    /\ UNCHANGED <<factoryInitialized, volumes, volumeStructs, lookupTable,
                   dirtyVolumes, halted, last, pc, loc, heldMap, gpu>>

LockNext ==
    \/ L_InitializeFactory
    \/ L_SetupCreate
    \/ \E t \in Threads : L_Hold(t)
    \/ \E t \in Threads : T_Call(t)
    \/ \E t \in Threads : T_CreateLock(t)
    \/ \E t \in Threads : T_CreateFind(t)
    \/ \E t \in Threads : T_CreateWrite(t)
    \/ \E t \in Threads : T_CreateCallback(t)
    \/ \E t \in Threads : T_CreateReturn(t)
    \/ \E t \in Threads : T_CatchLock(t)
    \/ \E t \in Threads : T_CatchRemove(t)
    \/ \E t \in Threads : L_CallGet(t)
    \/ \E t \in Threads : L_Get(t)
    \/ \E t \in Threads : R_CallRemove(t)
    \/ \E t \in Threads : R_RemoveGet(t)
    \/ \E t \in Threads : R_RemoveId(t)
    \/ \E t \in Threads : R_RemoveRemove(t)
    \/ \E t \in Threads : R_RemoveInsert(t)
    \/ \E t \in Threads : L_CallClearAll(t)
    \/ \E t \in Threads : L_ClearAllStep(t)
    \/ \E t \in Threads : L_RelockThrows(t)
    \/ \E t \in Threads : L_Release(t)

LockSpec == Init /\ [][LockNext]_vars

(* ---------------------- deviceCode.cu: one pixel ---------------------- *)

\* The sizes of the component struct tables of the launch parameters.  The
\* header that defines them is not among the sources; small sizes stand for
\* them.
MAX_ENTITIES == 2

MAX_MATERIALS == 2

MAX_TRANSFORMS == 2

MAX_CAMERAS == 2

\* the size of a table of optixLaunchParams
TableSize(table) ==
    CASE table = "entities"   -> MAX_ENTITIES
      [] table = "materials"  -> MAX_MATERIALS
      [] table = "transforms" -> MAX_TRANSFORMS
      [] table = "cameras"    -> MAX_CAMERAS

\* the values a transform_id, camera_id (int32_t) can have, as far as the
\* comparisons tell them apart: below, inside and above the table
TransformIds == -1..(MAX_TRANSFORMS + 1)

CameraIds == -1..(MAX_CAMERAS + 1)

MaterialIds == -1..(MAX_MATERIALS + 1)

\* the values of instanceToEntityMap[instID] (uint32_t)
EntityIds == 0..(MAX_ENTITIES + 1)

\* mutant of loadCamera: > in place of >= in the test of camera_id
loadCamera_offByOne(cameraEntity) ==
    IF ~cameraEntity.initialized THEN [ok |-> FALSE, reads |-> {}]
    ELSE IF cameraEntity.transform_id < 0 \/ cameraEntity.transform_id >= MAX_TRANSFORMS
    THEN [ok |-> FALSE, reads |-> {}]
    ELSE IF cameraEntity.camera_id < 0 \/ cameraEntity.camera_id > MAX_CAMERAS
    THEN [ok |-> FALSE, reads |-> {}]
    ELSE [ok |-> TRUE,
          reads |-> {<<"cameras", cameraEntity.camera_id>>,
                     <<"transforms", cameraEntity.transform_id>>}]

\* loadCamera: what it returns and the table elements it reads
loadCamera(cameraEntity) ==
    IF ~cameraEntity.initialized THEN [ok |-> FALSE, reads |-> {}]
    ELSE IF cameraEntity.transform_id < 0 \/ cameraEntity.transform_id >= MAX_TRANSFORMS
    THEN [ok |-> FALSE, reads |-> {}]
    ELSE IF cameraEntity.camera_id < 0 \/ cameraEntity.camera_id >= MAX_CAMERAS
    THEN [ok |-> FALSE, reads |-> {}]
    ELSE [ok |-> TRUE,
          reads |-> {<<"cameras", cameraEntity.camera_id>>,
                     <<"transforms", cameraEntity.transform_id>>}]

\* OPTIX_CLOSEST_HIT_PROGRAM(TriangleMesh), lines 45-58: the colour it picks
\* and the table elements it reads; material_id is the field of
\* entities[entityID]
TriangleMesh(entityID, material_id) ==
    IF entityID >= MAX_ENTITIES THEN [colour |-> "magenta", reads |-> {}]
    ELSE IF material_id < 0 \/ material_id >= MAX_MATERIALS
    THEN [colour |-> "green", reads |-> {<<"entities", entityID>>}]
    ELSE [colour |-> "base_color",
          reads |-> {<<"entities", entityID>>, <<"materials", material_id>>}]

\* a launch: optixLaunchParams.cameraEntity is whatever the host uploaded
D_Launch ==
    /\ gpu.pc = "idle"
    /\ \E init \in BOOLEAN, tid \in TransformIds, cid \in CameraIds :
          gpu' = [gpu EXCEPT !.pc = "raygen",
                             !.cameraEntity = [initialized |-> init,
                                               transform_id |-> tid,
                                               camera_id |-> cid]]
    /\ UNCHANGED <<registry, halted, last, pc, loc, heldMap>>

\* OPTIX_RAYGEN_PROGRAM(rayGen) up to owl::traceRay: without a camera the
\* pixel gets a random colour and the program returns
rayGen ==
    /\ gpu.pc = "raygen"
    /\ \E r \in {loadCamera(gpu.cameraEntity)} :
          IF ~r.ok
          THEN gpu' = [gpu EXCEPT !.pc = "done", !.colour = "random"]
          ELSE gpu' = [gpu EXCEPT !.pc = "trace", !.loaded = TRUE,
                                  !.traced = TRUE, !.reads = @ \cup r.reads]
    /\ UNCHANGED <<registry, halted, last, pc, loc, heldMap>>

\* the ray hits nothing: OPTIX_MISS_PROGRAM(miss) is empty, tmax stays -1
\* and rayGen writes finalColor = 0
miss ==
    /\ gpu.pc = "trace"
    /\ gpu' = [gpu EXCEPT !.pc = "done", !.colour = "black"]
    /\ UNCHANGED <<registry, halted, last, pc, loc, heldMap>>

\* the ray hits an instance: the closest-hit program, then rayGen writes
\* the colour
closestHit ==
    /\ gpu.pc = "trace"
    /\ \E entityID \in EntityIds, material_id \in MaterialIds :
        \E h \in {TriangleMesh(entityID, material_id)} :
          gpu' = [gpu EXCEPT !.pc = "done",
                             !.entityID = entityID,
                             !.material_id = IF <<"entities", entityID>> \in h.reads
                                             THEN material_id ELSE Null,
                             !.colour = h.colour,
                             !.reads = @ \cup h.reads]
    /\ UNCHANGED <<registry, halted, last, pc, loc, heldMap>>

DeviceNext ==
    \/ D_Launch
    \/ rayGen
    \/ miss
    \/ closestHit

DeviceSpec == Init /\ [][DeviceNext]_vars

(* ----------------------------- properties ----------------------------- *)

\* the live records with their slot, name and id
LiveRecords(vols) == {<<i, vols[i].name, vols[i].id>> : i \in Live(vols)}

\* some live record carries the name
IsLiveName(name, vols) == \E i \in Live(vols) : vols[i].name = name

\* createFromFile(name, path) and remove(name), called in the current state
CreateNow(name, pathKind, ub) ==
    Volume_createFromFile(name, pathKind, ub, editMutex, lookupTable, volumes,
                          dirtyVolumes)

RemoveNow(name) == Volume_remove(name, editMutex, lookupTable, volumes, dirtyVolumes)

GetNow(name) == Volume_get(name, editMutex, lookupTable, volumes)

\* the errors of the construction step of createFromFile
ConstructionErrors == {"FileNotFound", "UnsupportedFormat", "UnreadableGrid", "LogicError"}

FailingPaths == {"missing", "unsupported", "unreadable", "nodot"}

\* C1: a create with a name that is live fails with DuplicateName and leaves
\* the first record as it was: after the failed call the record is still
\* initialized under that name and get(name) still returns it.
C1_DuplicateCreateKeepsRecord ==
    (last.op = "create" /\ last.err = "DuplicateName")
        => /\ GetNow(last.arg).id # Null
           /\ IsLiveName(last.arg, volumes)
           /\ last.arg \in DOMAIN lookupTable

C3_FailedCreateRolledBack ==
    /\ \A name \in Names, pathKind \in FailingPaths :
          (/\ factoryInitialized
           /\ ~IsLiveName(name, volumes)
           /\ Live(volumes) # DOMAIN volumes)
          => LET r == CreateNow(name, pathKind, "throw") IN
             /\ r.err \in ConstructionErrors
             /\ Volume_get(name, editMutex, r.table, r.vols).id = Null
             /\ ~IsLiveName(name, r.vols)
             /\ LiveRecords(r.vols) = LiveRecords(volumes)
             /\ r.table = lookupTable
             /\ r.dirty = dirtyVolumes
    /\ (last.op = "create" /\ last.err \in ConstructionErrors)
          => /\ GetNow(last.arg).id = Null
             /\ ~IsLiveName(last.arg, volumes)
             /\ last.arg \notin DOMAIN lookupTable

C3_Witness ==
    /\ last.op = "create" /\ last.err \in ConstructionErrors
    /\ Live(volumes) # {} /\ Live(volumes) # DOMAIN volumes
    /\ dirtyVolumes # {}

\* C4: with every slot live, a create of a name that is not live fails with
\* CapacityExceeded and changes nothing; whenever a create fails with
\* CapacityExceeded the number of live records is the capacity.
C4_CapacityExceeded ==
    /\ \A name \in Names, pathKind \in PathKinds :
          (/\ factoryInitialized
           /\ ~IsLiveName(name, volumes)
           /\ Live(volumes) = DOMAIN volumes)
          => LET r == CreateNow(name, pathKind, "throw") IN
             /\ r.err = "CapacityExceeded"
             /\ r.vols = volumes
             /\ r.table = lookupTable
             /\ r.dirty = dirtyVolumes
             /\ Cardinality(Live(r.vols)) = Volume_getCount(r.vols)
    /\ (last.op = "create" /\ last.err = "CapacityExceeded")
          => Cardinality(Live(volumes)) = Volume_getCount(volumes)

C4_Witness ==
    /\ last.op = "create" /\ last.err = "CapacityExceeded"
    /\ Volume_getCount(volumes) >= 2
    /\ Live(volumes) = DOMAIN volumes

\* C5: after remove(name) of a live record, get(name) is not-found and the
\* slot is not initialized; create(name) then succeeds, and it takes the
\* freed slot unless a lower slot is free.
C5_RemoveThenCreate ==
    (last.op = "remove" /\ last.ret # Null)
        => LET r == CreateNow(last.arg, "ok", "throw") IN
           /\ GetNow(last.arg).id = Null
           /\ ~IsLiveName(last.arg, volumes)
           /\ ~Volume_isInitialized(volumes, last.ret)
           /\ r.err = "None"
           /\ r.ret <= last.ret
           /\ (\A j \in 0..(last.ret - 1) : volumes[j].initialized) => r.ret = last.ret

C5_Witness ==
    /\ last.op = "remove" /\ last.ret # Null /\ last.ret > 0
    /\ Live(volumes) # {}

\* C6: a successful create takes the lowest slot that was not initialized;
\* when a remove has freed a slot of a full registry, a create of any name
\* that is not live succeeds and takes the freed slot.
C6_FirstFit ==
    /\ (last.op = "create" /\ last.err = "None")
          => /\ \A j \in 0..(last.ret - 1) : volumes[j].initialized
             /\ lookupTable[last.arg] = last.ret
    /\ \A name \in Names :
          (/\ last.op = "remove" /\ last.ret # Null
           /\ Live(volumes) = (DOMAIN volumes) \ {last.ret}
           /\ ~IsLiveName(name, volumes))
          => LET r == CreateNow(name, "ok", "throw") IN
             r.err = "None" /\ r.ret = last.ret
    /\ \A name \in Names :
          (factoryInitialized /\ ~IsLiveName(name, volumes)
              /\ Live(volumes) # DOMAIN volumes)
          => LET r == CreateNow(name, "ok", "throw") IN
             /\ r.err = "None"
             /\ ~volumes[r.ret].initialized
             /\ \A j \in 0..(r.ret - 1) : volumes[j].initialized

\* the created record went into a hole: a slot above it is live, and so is
\* the slot below it
C6_Witness ==
    /\ last.op = "create" /\ last.err = "None" /\ last.ret >= 1
    /\ Live(volumes) = DOMAIN volumes
    /\ \E j \in Live(volumes) : j > last.ret

\* C7: after updateComponents areAnyDirty() is false, and another call made
\* right away changes nothing.
C7_UpdateIdempotent ==
    /\ last.op = "updateComponents"
          => /\ ~Volume_areAnyDirty(dirtyVolumes)
             /\ Volume_updateComponents(dirtyVolumes) = dirtyVolumes
    /\ ~Volume_areAnyDirty(Volume_updateComponents(dirtyVolumes))
    /\ Volume_updateComponents(Volume_updateComponents(dirtyVolumes))
          = Volume_updateComponents(dirtyVolumes)

C7_Witness ==
    /\ last.op = "updateComponents"
    /\ Live(volumes) # {}
    /\ ~Volume_areAnyDirty(dirtyVolumes)

\* C8: two threads creating distinct names never both get the same slot:
\* two names never map to one slot, every name maps to the record that
\* carries it, and two returned handles differ.
C8_DistinctSlots ==
    /\ \A n, k \in DOMAIN lookupTable : n # k => lookupTable[n] # lookupTable[k]
    /\ \A t, u \in Threads :
          (/\ t # u
           /\ pc[t] = "done" /\ loc[t].err = "None"
           /\ pc[u] = "done" /\ loc[u].err = "None")
          => /\ loc[t].id # loc[u].id
             /\ volumes[loc[t].id].name = loc[t].name
             /\ volumes[loc[u].id].name = loc[u].name

C8_Witness ==
    \E t, u \in Threads :
        /\ t # u
        /\ pc[t] = "done" /\ loc[t].err = "None" /\ loc[t].id # Null
        /\ pc[u] = "done" /\ loc[u].err = "None" /\ loc[u].id # Null

\* C9: on an initialized registry remove(name) of a name that is not live
\* signals no error and changes neither the records, the name table nor the
\* dirty set.
C9_RemoveAbsentNoOp ==
    /\ \A name \in Names :
          (factoryInitialized /\ ~IsLiveName(name, volumes))
          => LET r == RemoveNow(name) IN
             /\ r.err = "None"
             /\ r.vols = volumes
             /\ r.table = lookupTable
             /\ r.dirty = dirtyVolumes
             /\ Volume_areAnyDirty(r.dirty) = Volume_areAnyDirty(dirtyVolumes)
    /\ (factoryInitialized /\ last.op = "remove" /\ last.ret = Null)
          => last.err = "None"

C9_Witness ==
    /\ factoryInitialized
    /\ last.op = "remove" /\ last.ret = Null /\ last.err = "None"
    /\ Live(volumes) # {}
    /\ dirtyVolumes # {}

\* C10: remove(name) of a live record puts the removed slot in the dirty set,
\* so areAnyDirty() is true right after the call; no call other than
\* updateComponents takes a slot out of the dirty set.
C10_RemoveMarksDirty ==
    [][ /\ (last'.op = "remove" /\ last'.ret # Null)
            => /\ last'.ret \in dirtyVolumes'
               /\ Volume_areAnyDirty(dirtyVolumes')
        /\ (last'.op # "updateComponents") => dirtyVolumes \subseteq dirtyVolumes'
      ]_vars

C10_Witness ==
    /\ last.op = "remove" /\ last.ret # Null
    /\ dirtyVolumes = {last.ret}
    /\ ~volumes[last.ret].initialized

\* clearAll(), called in the current state
ClearAllNow ==
    Volume_clearAll(factoryInitialized, editMutex, lookupTable, volumes, dirtyVolumes)

\* C11: after clearAll() no slot is initialized, the name table is empty and
\* get(name) finds no record for any name; this is so of the call just made
\* and of a call made in any state.
C11_ClearAllEmpties ==
    /\ last.op = "clearAll"
          => /\ Live(volumes) = {}
             /\ DOMAIN lookupTable = {}
             /\ \A n \in Names : GetNow(n).id = Null
    /\ \E r \in {ClearAllNow} :
          /\ Live(r.vols) = {}
          /\ DOMAIN r.table = {}
          /\ \A i \in Live(volumes) : ~Volume_isInitialized(r.vols, i)

\* a clearAll that removed at least two records (both slots are then dirty)
C11_Witness ==
    /\ factoryInitialized
    /\ last.op = "clearAll"
    /\ Live(volumes) = {}
    /\ \E i, j \in dirtyVolumes : i # j

\* C12: initializeFactory on an initialized registry, with any maxCount,
\* changes nothing of the registry, and no call changes getCount() once the
\* registry is initialized.
C12_InitializeOnce ==
    [][ factoryInitialized
           => /\ Volume_getCount(volumes') = Volume_getCount(volumes)
              /\ factoryInitialized'
              /\ (last'.op = "initializeFactory") => UNCHANGED registry
      ]_vars

\* initializeFactory called again, with another maxCount, on a registry that
\* holds a record
C12_Witness ==
    /\ last.op = "initializeFactory"
    /\ Live(volumes) # {}
    /\ last.arg # Volume_getCount(volumes)
    /\ dirtyVolumes # {}

\* the registry as constructed, before initializeFactory
Uninitialized ==
    /\ volumes = [i \in {} |-> Volume_null]
    /\ volumeStructs = [i \in {} |-> 0]
    /\ lookupTable = [n \in {} |-> Null]
    /\ dirtyVolumes = {}
    /\ IsNullMutex(editMutex)

\* C13 as stated: every call other than initializeFactory made before
\* initializeFactory fails with NotInitialized and changes nothing.
C13_AllFailNotInitialized ==
    (~factoryInitialized /\ last.op \in {"create", "get", "remove", "clearAll",
                                        "updateComponents", "markDirty"})
        => /\ last.err = "NotInitialized"
           /\ Uninitialized

\* C13, amended: before initializeFactory, create, get and remove fail with
\* NotInitialized, clearAll and updateComponents return without an error,
\* markDirty fails with the not-allocated error, and none of them changes the
\* registry.
C13_BeforeInitialize ==
    ~factoryInitialized
        => /\ Uninitialized
           /\ last.op \in {"create", "get", "remove"} => last.err = "NotInitialized"
           /\ last.op \in {"clearAll", "updateComponents"} => last.err = "None"
           /\ last.op = "markDirty" => last.err = "NotAllocated"
           /\ last.ret = Null

C13_Witness ==
    /\ ~factoryInitialized
    /\ last.op = "clearAll"
    /\ last.err = "None"

\* C14 as stated: areAnyDirty() is false whenever no live record is dirty.
C14_FalseWithoutLiveDirty ==
    Volume_areAnyDirty(dirtyVolumes)
        => \E i \in dirtyVolumes : i \in Live(volumes)

\* C14, amended: areAnyDirty() is true after a create that succeeded, a
\* markDirty that succeeded and a remove (or clearAll) of a live record, false
\* after updateComponents, and unchanged by every other call: it is true
\* exactly when a slot was created, marked or removed since the last
\* updateComponents, whether or not that slot is still live.
C14_AnyDirty ==
    [][ LET was == Volume_areAnyDirty(dirtyVolumes)
            is  == Volume_areAnyDirty(dirtyVolumes')
        IN  CASE last'.op = "updateComponents" -> ~is
              [] last'.op = "create" /\ last'.err = "None" -> is
              [] last'.op = "markDirty" /\ last'.err = "None" -> is
              [] last'.op = "remove" /\ last'.ret # Null -> is
              [] last'.op = "clearAll" -> is = (was \/ Live(volumes) # {})
              [] OTHER -> is = was
      ]_vars

\* areAnyDirty() is true and the only dirty slot is one that was removed
C14_Witness ==
    /\ last.op = "remove" /\ last.ret # Null
    /\ Volume_areAnyDirty(dirtyVolumes)
    /\ \A i \in dirtyVolumes : i \notin Live(volumes)
    /\ Live(volumes) # {}

\* C15: when updateComponents() has returned, the render struct of every live
\* record is the struct computed from that record (every live record was in
\* the dirty set of this pass or of an earlier one, and no call changes the
\* fields of a live record).
C15_StructsRecomputed ==
    last.op = "updateComponents"
        => \A i \in Live(volumes) : volumeStructs[i] = VolumeStruct_of(volumes[i])

\* C17: the name table and the slot array agree: a name maps to slot i exactly
\* when record i is initialized and carries that name, no two live records
\* share a name, and the table has one entry per live record.
C17_TableMatchesRecords ==
    /\ \A n \in DOMAIN lookupTable :
          /\ lookupTable[n] \in Live(volumes)
          /\ volumes[lookupTable[n]].name = n
    /\ \A i \in Live(volumes) :
          /\ volumes[i].name \in DOMAIN lookupTable
          /\ lookupTable[volumes[i].name] = i
    /\ \A i, j \in Live(volumes) : volumes[i].name = volumes[j].name => i = j
    /\ Cardinality(DOMAIN lookupTable) = Cardinality(Live(volumes))

\* a table of two names over an array with a free slot below a live one
C17_Witness ==
    /\ Cardinality(DOMAIN lookupTable) >= 2
    /\ \E i, j \in DOMAIN volumes :
          i < j /\ ~volumes[i].initialized /\ volumes[j].initialized
    /\ last.op = "updateComponents"

\* C20 as stated: get(name) never returns an uninitialized record, and every
\* member of the dirty set is an initialized, live record.
C20_DirtyAreLive ==
    /\ \A n \in Names :
          \E g \in {GetNow(n)} : g.id # Null => Volume_isInitialized(volumes, g.id)
    /\ \A i \in dirtyVolumes : i \in Live(volumes)

\* C20, amended: get(name) never returns an uninitialized record, and every
\* member of the dirty set is a slot of the array, live or not (a removed
\* slot stays in the set until the next updateComponents).
C20_NoNullHandedOut ==
    /\ \A n \in Names :
          \E g \in {GetNow(n)} :
              g.id # Null => /\ Volume_isInitialized(volumes, g.id)
                             /\ volumes[g.id].name = n
    /\ (last.op = "get" /\ last.ret # Null)
          => Volume_isInitialized(volumes, last.ret)
    /\ \A i \in dirtyVolumes :
          Volume_getAddress(i) >= 0 /\ Volume_getAddress(i) < Volume_getCount(volumes)

\* a get that found a record while the last slot of the array, removed, is
\* in the dirty set
C20_Witness ==
    /\ last.op = "get" /\ last.ret # Null
    /\ \E i \in dirtyVolumes :
          /\ ~volumes[i].initialized
          /\ i = Volume_getCount(volumes) - 1

\* C16: the map getNameToIdMap() returned is the name table of the moment of
\* the call, one entry name -> slot per live record, and whatever create,
\* remove and clearAll do afterwards, the caller reads the same map.
C16_MapIsSnapshot ==
    /\ heldMap.taken => ReadHeldMap = heldMap.atCall
    /\ (heldMap.taken /\ last.op = "getNameToIdMap")
          => /\ ReadHeldMap = lookupTable
             /\ DOMAIN ReadHeldMap = {volumes[i].name : i \in Live(volumes)}
             /\ \A i \in Live(volumes) : ReadHeldMap[volumes[i].name] = i

\* the caller holds a map of two names while the table has become empty
C16_Witness ==
    /\ heldMap.taken
    /\ Cardinality(DOMAIN ReadHeldMap) >= 2
    /\ DOMAIN lookupTable = {}
    /\ last.op \in {"remove", "clearAll"}

\* the steps at which a thread, inside create, remove, markDirty or
\* updateComponents, is about to read or write the registry
AccessSteps == {"c_find", "c_write", "c_callback", "x_remove",
                "m_insert", "u_check", "u_clear", "r_id", "r_insert"}

\* C18: a thread that is inside a mutating call and about to read or write
\* the registry holds the edit mutex.
C18_MutatorsHoldMutex ==
    \A t \in Threads :
        pc[t] \in AccessSteps => (editMutex.owner = t /\ editMutex.count > 0)

\* C19: a record that was clean when a pass began and that another thread
\* marked dirty while the pass was in progress is still in the dirty set
\* when that pass has returned (no pass that began later has run).
C19_ConcurrentMarkDeferred ==
    \A t \in Threads :
        ( /\ pc[t] = "m_done" /\ loc[t].err = "None"
          /\ \E u \in loc[t].seen :
                pc[u] = "u_done" /\ loc[t].id \notin loc[u].seen
          /\ \A v \in Threads \ loc[t].seen : pc[v] # "u_done" )
        => loc[t].id \in dirtyVolumes

\* C21: the slot of a create that succeeded is in the dirty set when the
\* call returns, areAnyDirty() is then true, and the slot stays in the set
\* through every call up to the next updateComponents.
C21_FreshRecordDirty ==
    [][ /\ (last'.op = "create" /\ last'.err = "None")
            => /\ last'.ret \in Live(volumes')
               /\ last'.ret \in dirtyVolumes'
               /\ Volume_areAnyDirty(dirtyVolumes')
        /\ (last'.op # "updateComponents")
            => /\ \A i \in dirtyVolumes : i \in dirtyVolumes'
               /\ Volume_areAnyDirty(dirtyVolumes)
                     => Volume_areAnyDirty(dirtyVolumes')
      ]_vars

\* a create that succeeded on a registry whose dirty set was empty
C21_Witness ==
    /\ last.op = "create" /\ last.err = "None"
    /\ dirtyVolumes = {last.ret}
    /\ Cardinality(Live(volumes)) >= 2

\* C22: the id of a live record is its position in the array; a call other
\* than remove(name) and clearAll leaves the record of a live name as it is,
\* in its slot; and a create that succeeds is given a slot that was free.
C22_SlotIdentityStable ==
    [][ /\ \A i \in Live(volumes') : volumes'[i].id = i
        /\ \A i \in Live(volumes) :
              ~( \/ last'.op = "clearAll"
                 \/ last'.op = "remove" /\ last'.arg = volumes[i].name )
                 => /\ volumes'[i] = volumes[i]
                    /\ GetNow(volumes[i].name)'.id = i
        /\ (last'.op = "create" /\ last'.err = "None")
              => last'.ret \notin Live(volumes)
      ]_vars

\* markDirty() on the record object obj, called in the current state
MarkDirtyNow(obj) == Volume_markDirty(obj, volumes, dirtyVolumes)

\* C23: markDirty on a record object whose address offset is negative or not
\* below the capacity fails and leaves the dirty set as it was; on a record
\* of the array it succeeds, adds that record and nothing else, and changes
\* nothing when the record is already dirty.
C23_MarkDirtyChecksAddress ==
    /\ \A obj \in Objects :
          \E r \in {MarkDirtyNow(obj)} :
              IF obj < 0 \/ obj >= Volume_getCount(volumes)
              THEN r.err = "NotAllocated" /\ r.dirty = dirtyVolumes
              ELSE /\ r.err = "None"
                   /\ r.dirty = dirtyVolumes \cup {obj}
                   /\ Volume_markDirty(obj, volumes, r.dirty).dirty = r.dirty
                   /\ obj \in dirtyVolumes => r.dirty = dirtyVolumes
    /\ last.op = "markDirty"
          => IF last.arg < 0 \/ last.arg >= Volume_getCount(volumes)
             THEN last.err = "NotAllocated"
             ELSE last.err = "None" /\ last.arg \in dirtyVolumes

\* markDirty was refused for the object one past the end of an array that
\* holds a dirty record
C23_Witness ==
    /\ factoryInitialized
    /\ last.op = "markDirty" /\ last.err = "NotAllocated"
    /\ last.arg = Volume_getCount(volumes)
    /\ dirtyVolumes # {}

\* C24: a thread that owns the edit mutex and, inside create, get, remove or
\* clearAll, comes to a lock_guard of that mutex gets past it, for the
\* registry of every component kind.
C24_LockIsReentrant ==
    \A t \in Threads :
        (WaitsForMutex(t) /\ editMutex.owner = t) => CanLock(editMutex, t)

\* C25: every element the device code reads of the entities, materials,
\* transforms and cameras tables is inside its table; loadCamera returns true,
\* and reads cameras[camera_id] and transforms[transform_id], only for an
\* initialized camera entity with both ids in range; the closest-hit program
\* reads entities[entityID] only for entityID < MAX_ENTITIES and
\* materials[material_id] only for a material_id in range, and picks a fixed
\* colour otherwise; no ray is traced when loadCamera returned false.
C25_DeviceReadsInBounds ==
    /\ \A rd \in gpu.reads : rd[2] >= 0 /\ rd[2] < TableSize(rd[1])
    /\ gpu.loaded
          => /\ gpu.cameraEntity.initialized
             /\ gpu.cameraEntity.transform_id \in 0..(MAX_TRANSFORMS - 1)
             /\ gpu.cameraEntity.camera_id \in 0..(MAX_CAMERAS - 1)
    /\ ~gpu.loaded
          => /\ \A rd \in gpu.reads : rd[1] \notin {"cameras", "transforms"}
             /\ ~gpu.traced
             /\ gpu.colour \in {"none", "random"}
    /\ gpu.traced => gpu.loaded
    /\ (gpu.pc = "done" /\ gpu.entityID # Null)
          => /\ (<<"entities", gpu.entityID>> \in gpu.reads)
                   = (gpu.entityID < MAX_ENTITIES)
             /\ gpu.entityID >= MAX_ENTITIES => gpu.colour = "magenta"
             /\ (gpu.material_id # Null /\ gpu.material_id \notin 0..(MAX_MATERIALS - 1))
                   => /\ gpu.colour = "green"
                      /\ \A rd \in gpu.reads : rd[1] # "materials"
             /\ \A rd \in gpu.reads :
                   rd[1] = "materials" => rd[2] = gpu.material_id

\* a pixel whose ray hit an entity with the last material of the table
C25_Witness ==
    /\ gpu.pc = "done"
    /\ gpu.colour = "base_color"
    /\ <<"materials", MAX_MATERIALS - 1>> \in gpu.reads
    /\ <<"cameras", MAX_CAMERAS - 1>> \in gpu.reads

====
